---- MODULE Spec2Model ----
(***************************************************************************)
(* The event-driven orchestration of src/src/extension.ts: the debounced   *)
(* text-change listener, the focus-change listener, the manual command,    *)
(* the asynchronous performAnalysis and the single webview panel.          *)
(*                                                                         *)
(* The extension host runs one callback at a time, so every action below   *)
(* is one callback run to its next await (or to its end).  performAnalysis *)
(* is split at `await fetch`: its synchronous head runs inside the handler *)
(* that called it (PerformAnalysisHead), its continuation is the action    *)
(* FetchSettles.  The second await (`await response.json()`) reads and     *)
(* writes no shared state before it, so both awaits are one continuation.  *)
(***************************************************************************)
EXTENDS Integers, Sequences, FiniteSets

(* ------------------------------ bounds --------------------------------- *)
\* Requests awaited at once (the code itself has no limit).
MaxInFlight == 2
\* Timer identities the host hands out.
MaxTimers == 2
\* Webview panel identities the host hands out.
MaxPanels == 2

Docs == {"docA", "docB"}
LanguageIds == {"java", "javascript", "typescript", "python", "ruby"}
\* The open documents' languages: every languageId occurs, next to a
\* supported and next to an unsupported one.
Workspaces ==
    { [docA |-> "python",     docB |-> "ruby"],
      [docA |-> "java",       docB |-> "typescript"],
      [docA |-> "javascript", docB |-> "ruby"] }
\* Document texts are opaque; two tell the latest text from an older one.
Texts == {"text1", "text2"}
\* Result payloads are opaque; two tell a newer result from an older one.
Results == {"result1", "result2"}
\* What a panel shows before any result is posted, and the body of a failed fetch.
NoResult == "noResult"
TimerIds == 1..MaxTimers
PanelIds == 1..MaxPanels

\* `undefined` of the two module-level variables.
Undefined == 0
\* No burst of edits is under way, or another event has disturbed it.
NoBurst == "noBurst"
\* vscode.window.activeTextEditor when no editor is focused.
NoEditor == "noEditor"
\* backendLanguage is never assigned on the `default:` branch.
Unsupported == "none"

\* How an awaited fetch can end: "ok", a 2xx answer whose body parses;
\* "errorStatus", a non-2xx answer whose error body parses (the `!response.ok`
\* branch); "thrown", a rejected fetch or a body that does not parse (both
\* land in the catch block).
ResponseKinds == {"ok", "errorStatus", "thrown"}

VARIABLES
    phase,             \* "loaded" | "active" | "deactivated"
    languageOf,        \* document -> its languageId
    text,              \* document -> its current text
    activeTextEditor,  \* vscode.window.activeTextEditor: a document or NoEditor
    debounceTimeout,   \* the module variable: a timer handle or Undefined
    timers,            \* the host's pending timers
    currentPanel,      \* the module variable: a panel handle or Undefined
    panels,            \* the host's webview panels
    inflight,          \* awaited fetches, in dispatch order
    last,              \* what the last callback did (its observable effects)
    armedBy,           \* the document whose edit armed the pending timer, or NoEditor
    burstText,         \* text of the last edit of an undisturbed burst, or NoBurst
    burstRearmed       \* that burst has cancelled and re-armed its own timer

vars == <<phase, languageOf, text, activeTextEditor, debounceTimeout, timers,
          currentPanel, panels, inflight, last, armedBy, burstText, burstRearmed>>

(* ------------------------- pure parts of the code ---------------------- *)

\* Mutant of IsSupported: 'typescript' is missing from the list.
IsSupported_NoTypescript(languageId) ==
    languageId \in {"java", "javascript", "python"}

\* ['java', 'javascript', 'typescript', 'python'].includes(languageId)
IsSupported(languageId) ==
    languageId \in {"java", "javascript", "typescript", "python"}

\* Mutant of backendLanguage: the default branch falls back to javascript.
backendLanguage_DefaultJavascript(languageId) ==
    CASE languageId = "java" -> "java"
      [] languageId = "python" -> "python"
      [] OTHER -> "javascript"

\* Mutant of backendLanguage: 'typescript' has no case of its own and is
\* passed on as it is.
backendLanguage_TypescriptAsIs(languageId) ==
    CASE languageId \in {"typescript", "javascript", "java", "python"} -> languageId
      [] OTHER -> Unsupported

\* The switch of performAnalysis.
backendLanguage(languageId) ==
    CASE languageId \in {"typescript", "javascript"} -> "javascript"
      [] languageId = "java" -> "java"
      [] languageId = "python" -> "python"
      [] OTHER -> Unsupported

\* Mutant of ClearDebounce: the pending timer is not cleared.
ClearDebounce_Never(handle, pending) ==
    pending

\* if (debounceTimeout) { clearTimeout(debounceTimeout); }
\* clearTimeout of a timer that has fired is a no-op.
ClearDebounce(handle, pending) ==
    IF handle # Undefined THEN pending \ {handle} ELSE pending

\* setTimeout returns a handle distinct from every pending one.
FreshTimer(pending) ==
    CHOOSE t \in TimerIds \ pending : \A u \in TimerIds \ pending : t <= u

\* createWebviewPanel returns a new panel.
FreshPanel ==
    CHOOSE p \in PanelIds : ~panels[p].live /\ \A q \in PanelIds : ~panels[q].live => p <= q

NoPanel == [live |-> FALSE, visible |-> FALSE, content |-> NoResult]

\* Mutant of ShouldReveal: every delivery reveals the panel.
ShouldReveal_Always(visible, forcePanelCreation) ==
    TRUE

\* if (!currentPanel.visible || forcePanelCreation) reveal
ShouldReveal(visible, forcePanelCreation) ==
    ~visible \/ forcePanelCreation

\* Mutant of CatchShowsNotice: the `|| !currentPanel` half is missing.
CatchShowsNotice_OnlyManual(panel, forcePanelCreation) ==
    forcePanelCreation

\* The guard of the catch block's notice.
CatchShowsNotice(panel, forcePanelCreation) ==
    forcePanelCreation \/ panel = Undefined

\* The notice of the `!response.ok` branch (it has no guard).
ErrorStatusShowsNotice(panel, forcePanelCreation) ==
    TRUE

\* The fetches that the requests `sent` add to the awaited ones.  The
\* continuation reads neither `code` nor `backendLanguage` again, so an awaited
\* fetch is its forcePanelCreation (and the model's `overtaken` mark).
Awaiting(sent, forcePanelCreation) ==
    [j \in 1..Len(sent) |-> [force |-> forcePanelCreation, overtaken |-> FALSE]]

\* The record of a callback `op` that sent, showed and posted nothing:
\*   force      forcePanelCreation of the performAnalysis call it ran
\*   sent       request bodies it sent; notices: popups it showed
\*   posted     messages it posted; revealed, created: reveal() called, panel created
\*   kind       how the fetch it continues ended; overtaken: that fetch's mark
\*   panelWas   currentPanel when it started
\*   result     the parsed body of the successful answer it handed to a panel
\*   burst, rearmed, armedBy   burstText, burstRearmed and armedBy when it
\*              started (kept for a timer expiry only)
Quiet(op) ==
    [op |-> op, force |-> FALSE, sent |-> <<>>, notices |-> <<>>, posted |-> <<>>,
     revealed |-> FALSE, created |-> FALSE, kind |-> "none", overtaken |-> FALSE,
     panelWas |-> currentPanel, result |-> NoResult, burst |-> NoBurst,
     rearmed |-> FALSE, armedBy |-> NoEditor]

\* Mutant of PerformAnalysisHead: the "no active editor" message is shown
\* whatever forcePanelCreation is.
PerformAnalysisHead_AlwaysSaysNoEditor(editor, forcePanelCreation) ==
    IF editor = NoEditor
    THEN [sent |-> <<>>, notices |-> <<"noActiveEditor">>]
    ELSE IF backendLanguage(languageOf[editor]) = Unsupported
    THEN [sent |-> <<>>,
          notices |-> IF forcePanelCreation THEN <<"unsupportedLanguage">> ELSE <<>>]
    ELSE [sent |-> <<[code |-> text[editor],
                      language |-> backendLanguage(languageOf[editor])]>>,
          notices |-> IF forcePanelCreation THEN <<"analyzing">> ELSE <<>>]

\* performAnalysis up to `await fetch`, with `editor` the value it reads from
\* vscode.window.activeTextEditor: the request body it sends (if any) and the
\* notices it shows.
PerformAnalysisHead(editor, forcePanelCreation) ==
    IF editor = NoEditor
    THEN [sent |-> <<>>,
          notices |-> IF forcePanelCreation THEN <<"noActiveEditor">> ELSE <<>>]
    ELSE IF backendLanguage(languageOf[editor]) = Unsupported
    THEN [sent |-> <<>>,
          notices |-> IF forcePanelCreation THEN <<"unsupportedLanguage">> ELSE <<>>]
    ELSE [sent |-> <<[code |-> text[editor],
                      language |-> backendLanguage(languageOf[editor])]>>,
          notices |-> IF forcePanelCreation THEN <<"analyzing">> ELSE <<>>]

(* ------------------------------- Init ---------------------------------- *)
Init ==
    /\ phase = "loaded"
    /\ languageOf \in Workspaces
    /\ text \in [Docs -> Texts]
    /\ activeTextEditor \in Docs \cup {NoEditor}
    /\ debounceTimeout = Undefined
    /\ timers = {}
    /\ currentPanel = Undefined
    /\ panels = [p \in PanelIds |-> NoPanel]
    /\ inflight = <<>>
    /\ last = Quiet("init")
    /\ armedBy = NoEditor
    /\ burstText = NoBurst
    /\ burstRearmed = FALSE

(* ------------------------------ actions -------------------------------- *)

\* activate(): registers the command and the two listeners; analyses nothing.
Activate ==
    /\ phase = "loaded"
    /\ phase' = "active"
    /\ last' = Quiet("activate")
    /\ burstText' = NoBurst
    /\ burstRearmed' = FALSE
    /\ UNCHANGED <<languageOf, text, activeTextEditor, debounceTimeout, timers,
                   currentPanel, panels, inflight, armedBy>>

\* The command 'cyclomatic-complexity-analyzer.analyzeComplexity':
\* await performAnalysis(true).  The command is in context.subscriptions, so
\* it exists only while the extension is active.
AnalyzeComplexityCommand ==
    /\ phase = "active"
    /\ LET head == PerformAnalysisHead(activeTextEditor, TRUE) IN
        /\ Len(inflight) + Len(head.sent) <= MaxInFlight
        /\ inflight' = inflight \o Awaiting(head.sent, TRUE)
        /\ last' = [Quiet("command") EXCEPT !.force = TRUE, !.sent = head.sent,
                                            !.notices = head.notices]
    /\ burstText' = NoBurst
    /\ burstRearmed' = FALSE
    /\ UNCHANGED <<phase, languageOf, text, activeTextEditor, debounceTimeout,
                   timers, currentPanel, panels, armedBy>>

\* Mutant of TextChangeTimers: `editor.document === event.document` is not
\* tested.
TextChangeTimers_AnyDocument(d) ==
    IF activeTextEditor # NoEditor /\ IsSupported(languageOf[activeTextEditor])
    THEN LET cleared == ClearDebounce(debounceTimeout, timers)
             t == FreshTimer(cleared)
         IN  <<t, cleared \cup {t}, TRUE>>
    ELSE <<debounceTimeout, timers, FALSE>>

\* What the onDidChangeTextDocument listener leaves in <<debounceTimeout,
\* timers>> for a change of document d, and whether it armed a timer.
TextChangeTimers(d) ==
    IF activeTextEditor # NoEditor /\ activeTextEditor = d
       /\ IsSupported(languageOf[activeTextEditor])
    THEN LET cleared == ClearDebounce(debounceTimeout, timers)
             t == FreshTimer(cleared)
         IN  <<t, cleared \cup {t}, TRUE>>
    ELSE <<debounceTimeout, timers, FALSE>>

\* The user (or anything else) changes the text of document d to t, and the
\* onDidChangeTextDocument listener runs.  The listener's Disposable is
\* dropped, so the listener outlives deactivate().
OnDidChangeTextDocument(d, t) ==
    /\ phase # "loaded"
    /\ t # text[d]
    /\ text' = [text EXCEPT ![d] = t]
    /\ \E free \in TimerIds : free \notin ClearDebounce(debounceTimeout, timers)
    /\ debounceTimeout' = TextChangeTimers(d)[1]
    /\ timers' = TextChangeTimers(d)[2]
    /\ last' = Quiet("textChange")
    /\ armedBy' = IF TextChangeTimers(d)[3] THEN d ELSE armedBy
    /\ burstText' = IF activeTextEditor = d /\ IsSupported(languageOf[d])
                    THEN t ELSE NoBurst
    /\ burstRearmed' = (activeTextEditor = d /\ IsSupported(languageOf[d])
                        /\ burstText # NoBurst)
    /\ UNCHANGED <<phase, languageOf, activeTextEditor, currentPanel, panels, inflight>>

\* What the onDidChangeActiveTextEditor listener does to the pending timers.
FocusChangeTimers(pending) ==
    pending

\* The focused editor becomes e (a document, or none), and the
\* onDidChangeActiveTextEditor listener runs.
OnDidChangeActiveTextEditor(e) ==
    /\ phase # "loaded"
    /\ e # activeTextEditor
    /\ activeTextEditor' = e
    /\ LET head == IF e # NoEditor /\ IsSupported(languageOf[e])
                   THEN PerformAnalysisHead(e, FALSE)
                   ELSE [sent |-> <<>>, notices |-> <<>>]
       IN
        /\ Len(inflight) + Len(head.sent) <= MaxInFlight
        /\ inflight' = inflight \o Awaiting(head.sent, FALSE)
        /\ last' = [Quiet("focusChange") EXCEPT !.sent = head.sent,
                                                !.notices = head.notices]
    /\ timers' = FocusChangeTimers(timers)
    /\ burstText' = NoBurst
    /\ burstRearmed' = FALSE
    /\ UNCHANGED <<phase, languageOf, text, debounceTimeout, currentPanel, panels,
                   armedBy>>

\* The debounce timer t expires: performAnalysis().  debounceTimeout keeps
\* the handle of the fired timer.
DebounceTimerFires(t) ==
    /\ t \in timers
    /\ timers' = timers \ {t}
    /\ LET head == PerformAnalysisHead(activeTextEditor, FALSE) IN
        /\ Len(inflight) + Len(head.sent) <= MaxInFlight
        /\ inflight' = inflight \o Awaiting(head.sent, FALSE)
        /\ last' = [Quiet("timerFires") EXCEPT !.sent = head.sent,
                                               !.notices = head.notices,
                                               !.burst = burstText,
                                               !.rearmed = burstRearmed,
                                               !.armedBy = armedBy]
    /\ armedBy' = IF timers' = {} THEN NoEditor ELSE armedBy
    /\ burstText' = NoBurst
    /\ burstRearmed' = FALSE
    /\ UNCHANGED <<phase, languageOf, text, activeTextEditor, debounceTimeout,
                   currentPanel, panels>>

RemoveAt(s, i) ==
    SubSeq(s, 1, i - 1) \o SubSeq(s, i + 1, Len(s))

\* Mutant of IsSuccess: the `!response.ok` check is missing.
IsSuccess_IgnoresStatus(kind) ==
    kind \in {"ok", "errorStatus"}

\* if (!response.ok) {...; return;}  const result = await response.json();
\* the code after these lines runs for a 2xx answer whose body parses.
IsSuccess(kind) ==
    kind = "ok"

\* The awaited fetches once fetch i has settled.  `overtaken` is bookkeeping
\* of the model: it marks a request dispatched before a Manual request whose
\* successful answer has already been handled (a panel was Open right after
\* that answer).
Settle(i, kind) ==
    [j \in 1..(Len(inflight) - 1) |->
        IF j < i
        THEN [inflight[j] EXCEPT !.overtaken =
                 @ \/ (IsSuccess(kind) /\ inflight[i].force)]
        ELSE inflight[j + 1]]

\* Mutant of PanelBranch: forcePanelCreation is tested before currentPanel.
PanelBranch_ForceFirst(panel, forcePanelCreation) ==
    IF forcePanelCreation THEN "create"
    ELSE IF panel # Undefined THEN "update"
    ELSE "discard"

\* Mutant of PanelBranch: the else branch creates the panel unconditionally.
PanelBranch_CreateWhenAbsent(panel, forcePanelCreation) ==
    IF panel # Undefined THEN "update" ELSE "create"

\* if (currentPanel) {...} else if (forcePanelCreation) {...}
PanelBranch(panel, forcePanelCreation) ==
    IF panel # Undefined THEN "update"
    ELSE IF forcePanelCreation THEN "create"
    ELSE "discard"

\* Mutant of PostMessage: a panel that shows a result ignores later ones.
PostMessage_OnlyFirst(panel, payload) ==
    IF panel.live /\ panel.content = NoResult
    THEN [panel EXCEPT !.content = payload] ELSE panel

\* webview.postMessage: a live panel shows the payload it was sent last.
PostMessage(panel, payload) ==
    IF panel.live THEN [panel EXCEPT !.content = payload] ELSE panel

\* panel.reveal(vscode.ViewColumn.Two)
Reveal(panel) ==
    IF panel.live THEN [panel EXCEPT !.visible = TRUE] ELSE panel

\* Mutant of DisposeHook: the hook leaves currentPanel as it is.
DisposeHook_KeepsHandle(panel) ==
    panel

\* The onDidDispose hook of every panel: currentPanel = undefined.
DisposeHook(panel) ==
    Undefined

\* Mutant of Message: the message carries what the panel showed before.
Message_StalePayload(p, payload) ==
    [panel |-> p, type |-> "analysisResult", payload |-> panels[p].content]

\* { type: 'analysisResult', payload: result }, posted to panel p.
Message(p, payload) ==
    [panel |-> p, type |-> "analysisResult", payload |-> payload]

\* The notices of a failed fetch: the `!response.ok` branch when the error
\* body parses, the catch block otherwise.
FailureNotices(kind, panel, forcePanelCreation) ==
    IF kind = "errorStatus"
    THEN IF ErrorStatusShowsNotice(panel, forcePanelCreation)
         THEN <<"analysisFailed">> ELSE <<>>
    ELSE IF CatchShowsNotice(panel, forcePanelCreation)
         THEN <<"couldNotConnect">> ELSE <<>>

\* The continuation of performAnalysis after `await fetch` for the i-th
\* awaited request: the fetch ends in `kind`, with `result` the parsed body
\* of a successful answer.
FetchSettles(i, kind, result) ==
    /\ i \in 1..Len(inflight)
    /\ inflight' = Settle(i, kind)
    /\ LET force == inflight[i].force
           done == [Quiet("fetchSettles") EXCEPT !.force = force, !.kind = kind,
                                                 !.overtaken = inflight[i].overtaken]
       IN
        IF ~IsSuccess(kind)
        THEN /\ last' = [done EXCEPT
                           !.notices = FailureNotices(kind, currentPanel, force)]
             /\ UNCHANGED <<currentPanel, panels>>
        ELSE CASE PanelBranch(currentPanel, force) = "update" ->
                    LET reveal == ShouldReveal(panels[currentPanel].visible, force)
                        posted == PostMessage(panels[currentPanel], result)
                    IN  /\ panels' = [panels EXCEPT ![currentPanel] =
                                         IF reveal THEN Reveal(posted) ELSE posted]
                        /\ last' = [done EXCEPT
                                      !.posted = <<Message(currentPanel, result)>>,
                                      !.result = result,
                                      !.revealed = reveal]
                        /\ UNCHANGED currentPanel
               [] PanelBranch(currentPanel, force) = "create" ->
                    /\ \E p \in PanelIds : ~panels[p].live
                    /\ currentPanel' = FreshPanel
                    /\ panels' = [panels EXCEPT ![FreshPanel] =
                                     [live |-> TRUE, visible |-> TRUE, content |-> result]]
                    /\ last' = [done EXCEPT
                                  !.posted = <<Message(FreshPanel, result)>>,
                                  !.result = result,
                                  !.created = TRUE]
               [] OTHER ->
                    /\ last' = done
                    /\ UNCHANGED <<currentPanel, panels>>
    /\ UNCHANGED <<phase, languageOf, text, activeTextEditor, debounceTimeout,
                   timers, armedBy, burstText, burstRearmed>>

\* The user closes panel p: the host disposes it and its onDidDispose hook runs.
PanelDisposedByUser(p) ==
    /\ panels[p].live
    /\ panels' = [panels EXCEPT ![p] = NoPanel]
    /\ currentPanel' = DisposeHook(p)
    /\ last' = Quiet("panelClosed")
    /\ UNCHANGED <<phase, languageOf, text, activeTextEditor, debounceTimeout,
                   timers, inflight, armedBy, burstText, burstRearmed>>

\* The user hides or shows panel p (its tab loses or gains the foreground).
PanelVisibilityChanges(p) ==
    /\ panels[p].live
    /\ panels' = [panels EXCEPT ![p].visible = ~@]
    /\ last' = Quiet("panelVisibility")
    /\ UNCHANGED <<phase, languageOf, text, activeTextEditor, debounceTimeout,
                   timers, currentPanel, inflight, armedBy, burstText, burstRearmed>>

\* deactivate(): dispose the panel (its hook runs), clear the timer.  The
\* host disposes context.subscriptions, which holds the command only.
Deactivate ==
    /\ phase = "active"
    /\ phase' = "deactivated"
    /\ IF currentPanel # Undefined
       THEN /\ panels' = [panels EXCEPT ![currentPanel] = NoPanel]
            /\ currentPanel' = DisposeHook(currentPanel)
       ELSE UNCHANGED <<currentPanel, panels>>
    /\ timers' = ClearDebounce(debounceTimeout, timers)
    /\ last' = Quiet("deactivate")
    /\ armedBy' = IF timers' = {} THEN NoEditor ELSE armedBy
    /\ burstText' = NoBurst
    /\ burstRearmed' = FALSE
    /\ UNCHANGED <<languageOf, text, activeTextEditor, debounceTimeout, inflight>>

Next ==
    \/ Activate
    \/ AnalyzeComplexityCommand
    \/ \E d \in Docs, t \in Texts : OnDidChangeTextDocument(d, t)
    \/ \E e \in Docs \cup {NoEditor} : OnDidChangeActiveTextEditor(e)
    \/ \E t \in TimerIds : DebounceTimerFires(t)
    \/ \E i \in 1..MaxInFlight, r \in Results : FetchSettles(i, "ok", r)
    \/ \E i \in 1..MaxInFlight, k \in ResponseKinds \ {"ok"} : FetchSettles(i, k, NoResult)
    \/ \E p \in PanelIds : PanelDisposedByUser(p)
    \/ \E p \in PanelIds : PanelVisibilityChanges(p)
    \/ Deactivate

Spec == Init /\ [][Next]_vars

(* ------------------------------ claims --------------------------------- *)

LivePanels == {p \in PanelIds : panels[p].live}

\* The language tags the claims call supported.
SupportedTags == {"java", "javascript", "typescript", "python"}

FocusedSupported ==
    activeTextEditor # NoEditor /\ languageOf[activeTextEditor] \in SupportedTags

FocusedUnsupported ==
    activeTextEditor # NoEditor /\ languageOf[activeTextEditor] \notin SupportedTags

\* The request body performAnalysis builds for the focused document.
FocusedRequest ==
    [code |-> text[activeTextEditor],
     language |-> backendLanguage(languageOf[activeTextEditor])]

SettledOk == last.op = "fetchSettles" /\ last.kind = "ok"
SettledFailed == last.op = "fetchSettles" /\ last.kind # "ok"

\* C1: a burst of edits to the focused supported document, undisturbed by any
\* other editor event, sends nothing while it lasts and keeps exactly one
\* timer pending; the expiry of that timer sends exactly one request, with
\* the text of the burst's last edit, and leaves no further expiry pending.
C1_BurstSendsOnce ==
    /\ burstText # NoBurst =>
          /\ last.op \notin {"command", "focusChange", "timerFires"}
          /\ last.sent = <<>>
          /\ Cardinality(timers) = 1
          /\ text[activeTextEditor] = burstText
    /\ (last.op = "timerFires" /\ last.burst # NoBurst) =>
          /\ Len(last.sent) = 1
          /\ last.sent[1].code = last.burst
          /\ last.sent[1] = FocusedRequest
          /\ timers = {}

\* C1 witness: the timer of a burst that re-armed it at least once has
\* expired and sent its one request.
C1_Witness ==
    /\ last.op = "timerFires"
    /\ last.burst # NoBurst
    /\ last.rearmed
    /\ Len(last.sent) = 1
    /\ last.sent[1].code = last.burst

\* C2: a focus change to a supported document sends the request for that
\* document in the focus-change step itself, whether or not a debounce timer
\* is pending.
C2_FocusDispatchesAtOnce ==
    (last.op = "focusChange" /\ FocusedSupported) =>
        /\ last.sent = <<FocusedRequest>>
        /\ inflight # <<>>
        /\ inflight[Len(inflight)] = [force |-> FALSE, overtaken |-> FALSE]

\* C2 witness: the focus moved to a supported document while a debounce
\* timer was pending, and the request went out.
C2_Witness ==
    /\ last.op = "focusChange"
    /\ FocusedSupported
    /\ timers # {}
    /\ Len(last.sent) = 1

\* C3 (as claimed): after a focus change or a manual command no debounce
\* timer armed earlier is still pending.
C3_FocusAndCommandCancelTimer ==
    last.op \in {"focusChange", "command"} => timers = {}

\* C4: at most one panel is live; a Manual success that finds the panel Open
\* posts to that panel and creates none, in whatever order the answers to
\* several Manual requests arrive.
C4_SinglePanel ==
    /\ Cardinality(LivePanels) <= 1
    /\ (SettledOk /\ last.force /\ last.panelWas # Undefined) =>
          /\ ~last.created
          /\ currentPanel = last.panelWas
          /\ LivePanels = {last.panelWas}
          /\ Len(last.posted) = 1
          /\ last.posted[1].panel = last.panelWas

\* C4 witness: the answer to a Manual request arrived after the answer to a
\* Manual request dispatched later, and found the panel Open.
C4_Witness ==
    /\ SettledOk
    /\ last.force
    /\ last.overtaken
    /\ last.panelWas # Undefined
    /\ ~last.created
    /\ Cardinality(LivePanels) = 1

C6_CloseThenRecreate ==
    /\ last.op = "panelClosed" => (currentPanel = Undefined /\ LivePanels = {})
    /\ (SettledOk /\ last.panelWas = Undefined /\ ~last.force) =>
          (currentPanel = Undefined /\ LivePanels = {})
    /\ (SettledOk /\ last.panelWas = Undefined /\ last.force) =>
          /\ last.created
          /\ currentPanel # Undefined
          /\ LivePanels = {currentPanel}
          /\ panels[currentPanel].content \in Results
          /\ last.posted = <<Message(currentPanel, panels[currentPanel].content)>>

\* C6 witness: a Manual success had opened the panel, the user closed it (the
\* extension is still active and the panel is gone), and the success of a
\* Manual request dispatched earlier has now created a new one.
C6_Witness ==
    /\ phase = "active"
    /\ SettledOk
    /\ last.overtaken
    /\ last.force
    /\ last.panelWas = Undefined
    /\ last.created
    /\ currentPanel # Undefined

\* A callback that dispatches keeps every fetch already awaited.
DispatchKeepsAwaited ==
    last'.op \in {"command", "focusChange", "timerFires"} =>
        /\ Len(inflight') >= Len(inflight)
        /\ SubSeq(inflight', 1, Len(inflight)) = inflight

\* C7: every success that finds the panel Open overwrites its content with
\* its own result, also when a request dispatched later has been answered
\* before it; and dispatching cancels no fetch that is awaited.
C7_LastArrivalWins ==
    /\ [](( SettledOk /\ last.panelWas # Undefined) =>
            /\ Len(last.posted) = 1
            /\ last.posted[1].panel = last.panelWas
            /\ currentPanel = last.panelWas
            /\ panels[currentPanel].content = last.posted[1].payload)
    /\ [][DispatchKeepsAwaited]_vars

\* C7 witness: a Background request was answered after a Manual request
\* dispatched later, and its result is what the panel shows.
C7_Witness ==
    /\ SettledOk
    /\ ~last.force
    /\ last.overtaken
    /\ last.panelWas # Undefined
    /\ Len(last.posted) = 1
    /\ panels[currentPanel].content = last.posted[1].payload

\* C8: with an unsupported document focused, a command, a focus change or a
\* timer expiry sends nothing and leaves the panel alone; the command shows
\* exactly the "unsupported language" notice, the other two show none.
C8_UnsupportedDropped ==
    (last.op \in {"command", "focusChange", "timerFires"} /\ FocusedUnsupported) =>
        /\ last.sent = <<>>
        /\ currentPanel = last.panelWas
        /\ last.posted = <<>>
        /\ ~last.created
        /\ last.notices = IF last.op = "command"
                          THEN <<"unsupportedLanguage">> ELSE <<>>

\* C8 witness: the command ran on an unsupported document.
C8_Witness ==
    /\ last.op = "command"
    /\ FocusedUnsupported
    /\ last.notices = <<"unsupportedLanguage">>
    /\ last.sent = <<>>

\* C9: a fetch that fails (error status, or thrown) changes neither
\* currentPanel nor any panel, and posts nothing.
C9_FailureLeavesPanel ==
    [][(last'.op = "fetchSettles" /\ last'.kind # "ok") =>
          (UNCHANGED <<currentPanel, panels>> /\ last'.posted = <<>>)]_vars

\* C9 witness: a Manual request failed while no panel was Open, and none is.
C9_Witness ==
    /\ SettledFailed
    /\ last.force
    /\ last.panelWas = Undefined
    /\ currentPanel = Undefined
    /\ LivePanels = {}

\* C10 (as claimed): a notice is shown only by a Manual intent, or by a
\* failure that finds no panel Open.
C10_NoticeOnlyManualOrNoPanel ==
    last.notices # <<>> =>
        (last.force \/ (SettledFailed /\ last.panelWas = Undefined))

\* C11: a success that has a panel (one already Open, or one a Manual request
\* creates) posts exactly one message, to that panel, of type
\* "analysisResult", carrying the result the service returned; no callback
\* posts a message of another type, and only a success posts at all.
C11_OneResultMessage ==
    /\ (SettledOk /\ (last.panelWas # Undefined \/ last.force)) =>
          /\ last.result \in Results
          /\ last.posted = <<[panel |-> currentPanel, type |-> "analysisResult",
                              payload |-> last.result]>>
    /\ \A k \in 1..Len(last.posted) : last.posted[k].type = "analysisResult"
    /\ last.posted # <<>> => SettledOk

\* C11 witness: a Background success posted its result to the Open panel.
C11_Witness ==
    /\ SettledOk
    /\ ~last.force
    /\ last.panelWas # Undefined
    /\ last.posted = <<[panel |-> currentPanel, type |-> "analysisResult",
                        payload |-> last.result]>>

\* The mapping of host language tags the claims state.
ClaimedBackendLanguage ==
    [java |-> "java", javascript |-> "javascript", typescript |-> "javascript",
     python |-> "python"]

\* C12: every request sent carries the language the fixed mapping gives for
\* the focused document's tag (one of java, javascript, python) and that
\* document's full text.
C12_RequestLanguageAndText ==
    \A k \in 1..Len(last.sent) :
        /\ activeTextEditor # NoEditor
        /\ languageOf[activeTextEditor] \in SupportedTags
        /\ last.sent[k].language = ClaimedBackendLanguage[languageOf[activeTextEditor]]
        /\ last.sent[k].language \in {"java", "javascript", "python"}
        /\ last.sent[k].code = text[activeTextEditor]

\* C12 witness: a request for a typescript document went out as javascript.
C12_Witness ==
    /\ Len(last.sent) = 1
    /\ activeTextEditor # NoEditor
    /\ languageOf[activeTextEditor] = "typescript"
    /\ last.sent[1].language = "javascript"
    /\ last.sent[1].code = text[activeTextEditor]

\* C13: a failed fetch (error status or thrown) of a Manual request, or one
\* that finds no panel Open, shows exactly one failure notice.
C13_FailureNeverSilent ==
    (SettledFailed /\ (last.force \/ last.panelWas = Undefined)) =>
        /\ Len(last.notices) = 1
        /\ last.notices[1] \in {"analysisFailed", "couldNotConnect"}

\* C13 witness: a Background fetch was rejected while no panel was Open, and
\* the notice was shown.
C13_Witness ==
    /\ SettledFailed
    /\ last.kind = "thrown"
    /\ ~last.force
    /\ last.panelWas = Undefined
    /\ last.notices = <<"couldNotConnect">>

\* C14: a timer expiry that finds no focused editor sends nothing, shows
\* nothing, posts nothing and leaves the panel as it was.
C14_ExpiryWithoutEditor ==
    (last.op = "timerFires" /\ activeTextEditor = NoEditor) =>
        /\ last.sent = <<>>
        /\ last.notices = <<>>
        /\ last.posted = <<>>
        /\ ~last.created
        /\ currentPanel = last.panelWas

\* C14 witness: the timer armed by an edit expired after the editor lost focus.
C14_Witness ==
    /\ last.op = "timerFires"
    /\ activeTextEditor = NoEditor
    /\ last.armedBy # NoEditor
    /\ last.sent = <<>>

\* The text change of this step is in a document that is not the focused one.
ChangesUnfocusedDocument ==
    /\ last'.op = "textChange"
    /\ activeTextEditor = NoEditor \/ text'[activeTextEditor] = text[activeTextEditor]

\* C15: a text change in a document that is not the focused one arms no
\* timer, cancels none, sends nothing and leaves the panel alone.
C15_UnfocusedEditIgnored ==
    [][ChangesUnfocusedDocument =>
          /\ UNCHANGED <<debounceTimeout, timers, armedBy, inflight,
                         currentPanel, panels>>
          /\ last'.sent = <<>>
          /\ last'.posted = <<>>]_vars

\* C15 witness: a document other than the focused, supported one has just
\* changed (no burst began) and the timer armed earlier is still pending.
C15_Witness ==
    /\ last.op = "textChange"
    /\ FocusedSupported
    /\ burstText = NoBurst
    /\ timers # {}
    /\ armedBy = activeTextEditor

\* This step is a success that delivers its result to a panel.
DeliversResult ==
    /\ last'.op = "fetchSettles"
    /\ last'.kind = "ok"
    /\ last'.posted # <<>>

\* C16: after a delivery the panel is shown if it was created by it
\* (createWebviewPanel opens it in ViewColumn.Two), or if it was not visible,
\* or if the request was Manual, the last two by a reveal(); a Background
\* delivery to a panel that is already visible calls no reveal().
C16_RevealPolicy ==
    [][DeliversResult =>
          LET p == currentPanel' IN
          /\ last'.created => panels'[p].visible
          /\ (~last'.created /\ (~panels[p].visible \/ last'.force)) =>
                (panels'[p].visible /\ last'.revealed)
          /\ (~last'.created /\ panels[p].visible /\ ~last'.force) =>
                (~last'.revealed /\ panels'[p].visible)]_vars

\* C16 witness: a Background result was delivered to a panel (already
\* visible, as the theorem gives) without a reveal().
C16_Witness ==
    /\ SettledOk
    /\ ~last.force
    /\ last.posted # <<>>
    /\ ~last.created
    /\ ~last.revealed
    /\ panels[currentPanel].visible

\* C17: at most one timer is pending, and it is the one debounceTimeout holds.
C17_OnePendingTimer ==
    /\ Cardinality(timers) <= 1
    /\ timers # {} => timers = {debounceTimeout}

\* C17 witness: an edit has just cancelled the timer of an earlier edit and
\* armed its own.
C17_Witness ==
    /\ last.op = "textChange"
    /\ burstRearmed
    /\ Cardinality(timers) = 1

\* C18 (as claimed): activation with a supported document focused sends a
\* request for it.
C18_ActivationAnalyses ==
    (last.op = "activate" /\ FocusedSupported) => Len(last.sent) = 1

\* C19 (as claimed): the request a timer expiry sends is for the document
\* whose edit armed the timer.
C19_ExpiryForArmingDocument ==
    (last.op = "timerFires" /\ last.sent # <<>>) => activeTextEditor = last.armedBy

\* C20 (as claimed): once deactivated there is no panel and no pending timer,
\* and no answer that arrives creates a panel or posts a message.
C20_ShutdownIsFinal ==
    phase = "deactivated" =>
        /\ currentPanel = Undefined
        /\ LivePanels = {}
        /\ timers = {}
        /\ last.op = "fetchSettles" => (last.posted = <<>> /\ ~last.created)

\* C21: the stored panel handle is never stale: it is set exactly when the
\* panel it names is live and no other panel is; a disposal, by the user or by
\* deactivate, clears the handle of the disposed panel and of no live one; and
\* every message is posted to the live panel the handle names.
C21_HandleNeverStale ==
    /\ currentPanel = Undefined <=> LivePanels = {}
    /\ currentPanel # Undefined => LivePanels = {currentPanel}
    /\ (last.op \in {"panelClosed", "deactivate"} /\ last.panelWas # Undefined) =>
          /\ currentPanel = Undefined
          /\ ~panels[last.panelWas].live
    /\ \A k \in 1..Len(last.posted) :
          /\ last.posted[k].panel = currentPanel
          /\ panels[last.posted[k].panel].live

\* C21 witness: the user has just closed the panel the handle named while the
\* answer to a request is still awaited.
C21_Witness ==
    /\ last.op = "panelClosed"
    /\ last.panelWas # Undefined
    /\ currentPanel = Undefined
    /\ inflight # <<>>
====
